---- MODULE Spec2Model ----
(***************************************************************************)
(* Number-theory core of altruct: Miller-Rabin, Pollard's Rho,             *)
(* factor_integer, Carmichael lambda, Chinese remainder, Garner, Cipolla / *)
(* Hensel square roots, primitive roots and k-th roots                     *)
(* (algorithm/math/primes.h, modulos.h).                                   *)
(*                                                                         *)
(* Every function is a sequential routine.  A call is modelled as a small  *)
(* state machine: Init draws the arguments, the actions run the body.      *)
(* Routines whose loops the properties speak about (factor_integer's       *)
(* work-list loop, sqrt_cipolla's search loop, the loops of pollard_rho    *)
(* and pollard_rho_repeated) advance one loop iteration per action; the    *)
(* others are evaluated in one action.                                     *)
(*                                                                         *)
(* Integers are unbounded here: the arguments stay far below the width of  *)
(* the C++ types, so no product overflows.                                 *)
(***************************************************************************)
EXTENDS Integers, Sequences, FiniteSets, TLC

VARIABLES
    pc,     \* position of the running call
    args,   \* the call's arguments (a record)
    q,      \* factor_integer: the work-list (std::vector<I> q), back = Tail end
    vf,     \* the vector vf of <<prime, exponent>> pairs (factor_integer's output)
    loc,    \* locals of the running call (a record), <<>> when there are none
    ret     \* the returned value, meaningful once the call has returned

vars == <<pc, args, q, vf, loc, ret>>

NoRet == "none"

(***************************************************************************)
(* Bounds of the model.                                                    *)
(***************************************************************************)
MaxMR == 3000          \* miller_rabin is run on 0..MaxMR (crosses 2047)
MaxMRNeg == 200        \* miller_rabin on a signed type: n in -MaxMRNeg..1
MaxBasesN == 20        \* miller_rabin(n, bases): n in 0..MaxBasesN
MaxBase == 24          \* miller_rabin(n, bases): bases in -MaxBase..MaxBase, not 0
MaxBasesLen == 2       \* miller_rabin(n, bases): 0..MaxBasesLen bases before the terminator
MaxFactorN == 1000      \* factor_integer is run on 0..MaxFactorN (covers 360)
MaxSmallIter == 3      \* small max_iter budgets -1..MaxSmallIter, beside the default
MaxCrtMod == 10        \* chinese_remainder: moduli n1, n2 in 1..MaxCrtMod
MaxCrtRes == 11        \* chinese_remainder: residues a1, a2 in -MaxCrtRes..MaxCrtRes
MaxCipollaP == 30      \* sqrt_cipolla: primes p <= MaxCipollaP
MaxHenselP == 13       \* sqrt_hensel_lift: odd primes p <= MaxHenselP
MaxHenselK == 5        \* sqrt_hensel_lift: exponents k in 1..MaxHenselK
MaxHenselMod == 2500   \* sqrt_hensel_lift: p^k <= MaxHenselMod
MaxRootM == 150        \* primitive_root: moduli m in 1..MaxRootM
MaxKthM == 30          \* kth_roots: moduli m in 2..MaxKthM that have a primitive root
MaxKthK == 8           \* kth_roots: k in 1..MaxKthK
MaxKthL == 12          \* kth_roots: discrete logarithms l in 0..MaxKthL
MaxLambdaM == 200      \* carmichael_lambda: m in 1..MaxLambdaM (2^7 = 128 included)
MaxRhoN == 120         \* pollard_rho(_repeated): n in 0..MaxRhoN
MaxRhoSeed == 3        \* pollard_rho: k and a in -1..MaxRhoSeed
MaxRhoBudget == 3      \* small max_inner_iter budgets -1..MaxRhoBudget, beside the default
MaxGarnerMod == 6      \* garner: moduli p_i in 2..MaxGarnerMod
MaxGarnerLen == 3      \* garner: lists of 0..MaxGarnerLen congruences

(***************************************************************************)
(* Program constants.                                                      *)
(***************************************************************************)
DefaultMaxIter == 20            \* factor_integer's and pollard_rho_repeated's max_iter
DefaultMaxInnerIter == 1000000  \* pollard_rho's max_inner_iter

(***************************************************************************)
(* C++ integer arithmetic: / truncates toward zero, % takes the sign of    *)
(* the dividend.                                                           *)
(***************************************************************************)
absT(x) == IF x < 0 THEN -x ELSE x

CDiv(x, y) ==
    IF (x >= 0) = (y > 0) THEN absT(x) \div absT(y) ELSE -(absT(x) \div absT(y))

CMod(x, y) == x - y * CDiv(x, y)

(***************************************************************************)
(* base.h / modulo.h (not part of the available sources).                  *)
(***************************************************************************)
RECURSIVE gcd(_, _)
gcd(a, b) == IF b = 0 THEN a ELSE gcd(b, CMod(a, b))

lcm(a, b) == CDiv(a, gcd(a, b)) * b

\* the extended Euclid loop of gcd_ex: <<g, x, y>> with a*x + b*y = g
RECURSIVE gcd_ex_loop(_, _, _, _, _, _)
gcd_ex_loop(g, h, xo, xn, yo, yn) ==
    IF h # 0
    THEN LET qt == CDiv(g, h)
         IN  gcd_ex_loop(h, g - qt * h, xn - qt * xo, xo, yn - qt * yo, yo)
    ELSE <<g, xn, yn>>

gcd_ex(a, b) == gcd_ex_loop(a, b, 0, 1, 1, 0)

\* modulo_normalize: the residue of v in [0, M)
modulo_normalize(v, M) == v % M

modulo_multiply(x, y, M) == CMod(x * y, M)

\* a moduloX<I> value: residue v in [0, M) and its modulus M
modx(v, M) == [v |-> modulo_normalize(v, M), M |-> M]

\* modx arithmetic: the result takes the left operand's modulus; the right
\* operand (a modx residue or a plain integer) contributes its value
modx_add(x, y) == modx(x.v + y, x.M)
modx_sub(x, y) == modx(x.v - y, x.M)
modx_mul(x, y) == modx(x.v * y, x.M)

\* modx division: multiplication by the inverse of y modulo x.M, the Bezout
\* coefficient of y from gcd_ex(y, x.M)
modx_div(x, y) == modx(x.v * gcd_ex(y, x.M)[2], x.M)

\* powT on modx: square-and-multiply from the identity modx(1, M)
RECURSIVE powT_loop(_, _, _)
powT_loop(r, x, y) ==
    IF y > 0
    THEN powT_loop(IF y % 2 # 0 THEN modx_mul(r, x.v) ELSE r,
                   modx_mul(x, x.v), y \div 2)
    ELSE r

powT_modx(x, y) == powT_loop(modx(1, x.M), x, y)

\* quadraticX<M>: a + b*sqrt(D) with a, b, D moduloX values
quadraticX(a, b, D) == [a |-> a, b |-> b, D |-> D]

quad_mul(x, y) ==
    quadraticX(modx_add(modx_mul(x.a, y.a.v), modx_mul(modx_mul(x.b, y.b.v), x.D.v).v),
               modx_add(modx_mul(x.a, y.b.v), modx_mul(x.b, y.a.v).v),
               x.D)

\* powT on quadraticX: square-and-multiply from the identity 1 + 0*sqrt(D)
RECURSIVE powT_quad_loop(_, _, _)
powT_quad_loop(r, x, y) ==
    IF y > 0
    THEN powT_quad_loop(IF y % 2 # 0 THEN quad_mul(r, x) ELSE r,
                        quad_mul(x, x), y \div 2)
    ELSE r

powT_quad(x, y) ==
    powT_quad_loop(quadraticX(modx(1, x.a.M), modx(0, x.a.M), x.D), x, y)

\* powT on plain integers
RECURSIVE powT_int(_, _)
powT_int(x, y) == IF y > 0 THEN x * powT_int(x, y - 1) ELSE 1

(***************************************************************************)
(* Miller-Rabin (primes.h).                                                *)
(***************************************************************************)
\* n - 1 = 2^r * d: the loop `while (d % 2 == 0) d /= 2, r++`
RECURSIVE mr_split(_, _)
mr_split(d, r) ==
    IF CMod(d, 2) = 0 THEN mr_split(CDiv(d, 2), r + 1) ELSE <<d, r>>

\* the inner loop `for (int i = 1; i < r; i++) { x *= x; if (...) break; }`
RECURSIVE mr_square(_, _, _, _)
mr_square(x, n, i, r) ==
    IF i < r
    THEN LET x2 == modx_mul(x, x.v)
         IN  IF x2.v = 1 \/ x2.v = n - 1 THEN x2 ELSE mr_square(x2, n, i + 1, r)
    ELSE x

\* the loop over the null-terminated array `bases`
RECURSIVE mr_bases(_, _, _, _, _)
mr_bases(n, bases, i, d, r) ==
    IF bases[i] # 0 /\ bases[i] < n
    THEN LET x == powT_modx(modx(bases[i], n), d)
         IN  IF x.v = 1 \/ x.v = n - 1
             THEN mr_bases(n, bases, i + 1, d, r)
             ELSE IF mr_square(x, n, 1, r).v # n - 1
                  THEN FALSE
                  ELSE mr_bases(n, bases, i + 1, d, r)
    ELSE TRUE

miller_rabin_bases(n, bases) ==
    IF n = 0 \/ n = 1 THEN FALSE
    ELSE IF n = 2 \/ n = 3 THEN TRUE
    ELSE IF CMod(n, 2) = 0 THEN FALSE
    ELSE LET dr == mr_split(n - 1, 0)
         IN  mr_bases(n, bases, 1, dr[1], dr[2])

bases1 == <<2, 0>>
bases2 == <<31, 73, 0>>
bases3 == <<2, 7, 61, 0>>

\* a slip in the first threshold: 2047 itself is still tested with base 2 only
miller_rabin_le2047(n) ==
    IF n <= 2047 THEN miller_rabin_bases(n, bases1)
    ELSE miller_rabin_bases(n, bases2)

\* The thresholds from 4759123141 on exceed the integers of the model (below
\* 2^31): every n of the model takes one of the first three branches, so the
\* chain of the source is cut after bases3.
miller_rabin(n) ==
    IF n < 2047 THEN miller_rabin_bases(n, bases1)
    ELSE IF n < 9080191 THEN miller_rabin_bases(n, bases2)
    ELSE miller_rabin_bases(n, bases3)

(***************************************************************************)
(* Reference notions the properties are stated with.                       *)
(***************************************************************************)
Divides(d, n) == n % d = 0

IsPrime(n) == n >= 2 /\ \A d \in 2..(n - 1) : d * d > n \/ ~Divides(d, n)

(***************************************************************************)
(* A call of miller_rabin(n).                                              *)
(***************************************************************************)
InitMR ==
    /\ pc = "miller_rabin"
    /\ args \in [n : 0..MaxMR]
    /\ q = <<>> /\ vf = <<>> /\ loc = <<>>
    /\ ret = NoRet

MillerRabinCall ==
    /\ pc = "miller_rabin"
    /\ ret' = miller_rabin(args.n)
    /\ pc' = "done"
    /\ UNCHANGED <<args, q, vf, loc>>

NextMR == MillerRabinCall

SpecMR == InitMR /\ [][NextMR]_vars

\* C1: for every n in 0..MaxMR (which crosses the first witness threshold
\* 2047), miller_rabin(n) returns true if and only if n is prime; in
\* particular miller_rabin(2047) is false.
C1_MillerRabinDecidesPrimality ==
    pc = "done" => /\ ret = IsPrime(args.n)
                   /\ (args.n = 2047 => ret = FALSE)

C1_Witness == pc = "done" /\ args.n = 2047 /\ ret = FALSE

(***************************************************************************)
(* miller_rabin(n) on a signed integer type: n below 2, negative included. *)
(***************************************************************************)
InitMRSigned ==
    /\ pc = "miller_rabin"
    /\ args \in [n : (-MaxMRNeg)..1]
    /\ q = <<>> /\ vf = <<>> /\ loc = <<>>
    /\ ret = NoRet

SpecMRSigned == InitMRSigned /\ [][NextMR]_vars

\* C13: miller_rabin(n) returns false for every integer n < 2, the negative
\* ones, odd and even, included.
C13_BelowTwoIsRejected ==
    (pc = "done" /\ args.n < 2) => ret = FALSE

(***************************************************************************)
(* A call of miller_rabin(n, bases) with a witness list of the caller: any *)
(* non-zero values in any order, closed by the terminator 0.               *)
(***************************************************************************)
BaseValues == ((-MaxBase)..MaxBase) \ {0}

BaseLists ==
    {Append(b, 0) : b \in UNION {[1..len -> BaseValues] : len \in 0..MaxBasesLen}}

InitMRBases ==
    /\ pc = "miller_rabin_bases"
    /\ args \in [n : 0..MaxBasesN, bases : BaseLists]
    /\ q = <<>> /\ vf = <<>> /\ loc = <<>>
    /\ ret = NoRet

MillerRabinBasesCall ==
    /\ pc = "miller_rabin_bases"
    /\ ret' = miller_rabin_bases(args.n, args.bases)
    /\ pc' = "done"
    /\ UNCHANGED <<args, q, vf, loc>>

NextMRBases == MillerRabinBasesCall

SpecMRBases == InitMRBases /\ [][NextMRBases]_vars

\* C14: for every prime n and every null-terminated witness list (any values,
\* any order, bases >= n included), miller_rabin(n, bases) returns true.
C14_PrimeIsNeverRejected ==
    (pc = "done" /\ IsPrime(args.n)) => ret = TRUE

(***************************************************************************)
(* Pollard's Rho (primes.h).                                               *)
(***************************************************************************)
\* the polynomial g(x) = x*x + a on moduloX
rho_g(x, a) == modx_add(modx_mul(x, x.v), a)

\* `while (d == 1 && max_inner_iter-- > 0) { x = g(x); y = g(g(y)); d = gcd(...); }`
RECURSIVE rho_loop(_, _, _, _, _, _)
rho_loop(n, a, x, y, d, max_inner_iter) ==
    IF d = 1 /\ max_inner_iter > 0
    THEN LET x2 == rho_g(x, a)
             y2 == rho_g(rho_g(y, a), a)
         IN  rho_loop(n, a, x2, y2, gcd(absT(modx_sub(x2, y2.v).v), n),
                      max_inner_iter - 1)
    ELSE d

pollard_rho(n, k, a, max_inner_iter) ==
    IF n = 0 THEN 0
    ELSE IF n = 1 THEN 1
    ELSE IF CMod(n, 2) = 0 THEN 2
    ELSE LET d == rho_loop(n, a, modx(k, n), modx(k, n), 1, max_inner_iter)
         IN  IF d = 1 THEN n ELSE d

\* `for (I k = 2; k <= max_iter; k++)`
RECURSIVE rho_repeat(_, _, _, _)
rho_repeat(n, k, max_iter, max_inner_iter) ==
    IF k <= max_iter
    THEN LET d == pollard_rho(n, k, k, max_inner_iter)
         IN  IF d # n THEN d ELSE rho_repeat(n, k + 1, max_iter, max_inner_iter)
    ELSE n

pollard_rho_repeated(n, max_iter, max_inner_iter) ==
    rho_repeat(n, 2, max_iter, max_inner_iter)

(***************************************************************************)
(* factor_integer_slow: trial division (primes.h).                         *)
(***************************************************************************)
\* a slip: `while (b % a == 0) b /= a; e++;` counts a repeated factor once
RECURSIVE strip_rest(_, _)
strip_rest(b, a) == IF CMod(b, a) = 0 THEN strip_rest(CDiv(b, a), a) ELSE b

strip_counts_once(b, a, e) ==
    IF CMod(b, a) = 0 THEN <<strip_rest(b, a), e + 1>> ELSE <<b, e>>

\* `while (n % i == 0) n /= i, e++`, as a function of the loop's variables:
\* <<n with every factor i removed, e>>
strip_loop[b \in Int, a \in Int, e \in Int] ==
    IF CMod(b, a) = 0 THEN strip_loop[CDiv(b, a), a, e + 1] ELSE <<b, e>>

strip(b, a, e) == strip_loop[b, a, e]

RECURSIVE slow_loop(_, _, _)
slow_loop(n, i, out) ==
    IF i <= CDiv(n, i)
    THEN IF CMod(n, i) # 0
         THEN slow_loop(n, i + 1, out)
         ELSE LET ne == strip(n, i, 0)
              IN  slow_loop(ne[1], i + 1, Append(out, <<i, ne[2]>>))
    ELSE IF n > 1 THEN Append(out, <<n, 1>>) ELSE out

factor_integer_slow(n) == slow_loop(n, 2, <<>>)

(***************************************************************************)
(* factor_integer (primes.h): the work-list loop, one iteration per        *)
(* action.  q.back() is the last element of the sequence q.  Until the     *)
(* call returns (pc = "done") ret holds no pairs.                          *)
(***************************************************************************)
back(s) == s[Len(s)]
pop_back(s) == SubSeq(s, 1, Len(s) - 1)

\* `for (auto& b : q) { while (b % a == 0) b /= a, e++; }` over the pending
\* values: <<the stripped work-list, e>>
strip_all_loop[pending \in Seq(Int), a \in Int, i \in Int, e \in Int] ==
    IF i <= Len(pending)
    THEN LET be == strip(pending[i], a, e)
         IN  strip_all_loop[[pending EXCEPT ![i] = be[1]], a, i + 1, be[2]]
    ELSE <<pending, e>>

strip_all(pending, a, i, e) == strip_all_loop[pending, a, i, e]

SmallIters == (-1)..MaxSmallIter

\* miller_rabin<I>(a) and pollard_rho_repeated<I>(a, max_iter) are pure: the
\* values they return on the numbers and budgets of the model, tabulated.
\* pollard_rho_repeated is only called on a value that miller_rabin rejects.
miller_rabin_of == [a \in 0..MaxFactorN |-> miller_rabin(a)]

pollard_rho_repeated_of ==
    [a \in {b \in 0..MaxFactorN : ~miller_rabin_of[b]},
     max_iter \in SmallIters \cup {DefaultMaxIter} |->
        pollard_rho_repeated(a, max_iter, DefaultMaxInnerIter)]

InitFactor ==
    /\ pc = "factor_integer"
    /\ args \in [n : 0..MaxFactorN, max_iter : SmallIters \cup {DefaultMaxIter}]
    /\ q = <<>> /\ vf = <<>> /\ loc = <<>>
    /\ ret = <<>>

\* `if (n == 0 || n == 1) return vf;`
FactorTrivial ==
    /\ pc = "factor_integer"
    /\ args.n = 0 \/ args.n = 1
    /\ pc' = "done"
    /\ ret' = vf
    /\ UNCHANGED <<args, q, vf, loc>>

\* `std::vector<I> q = { n };`
FactorEnter ==
    /\ pc = "factor_integer"
    /\ ~(args.n = 0 \/ args.n = 1)
    /\ q' = <<args.n>>
    /\ pc' = "loop"
    /\ UNCHANGED <<args, vf, loc, ret>>

\* `if (a == 1) continue;`
FactorPopOne ==
    /\ pc = "loop" /\ q # <<>>
    /\ back(q) = 1
    /\ q' = pop_back(q)
    /\ loc' = [a |-> 1, branch |-> "one"]
    /\ UNCHANGED <<pc, args, vf, ret>>

\* a slip: the prime is recorded without stripping it from the pending values
FactorPopPrime_no_strip ==
    /\ pc = "loop" /\ q # <<>>
    /\ back(q) # 1
    /\ miller_rabin_of[back(q)]
    /\ q' = pop_back(q)
    /\ vf' = Append(vf, <<back(q), 1>>)
    /\ loc' = [a |-> back(q), branch |-> "prime"]
    /\ UNCHANGED <<pc, args, ret>>

\* a slip: `if (b % a == 0) b /= a, e++;` divides each pending value once
FactorPopPrime_strip_once ==
    /\ pc = "loop" /\ q # <<>>
    /\ LET a == back(q)
           rest == pop_back(q)
           hit == {i \in 1..Len(rest) : CMod(rest[i], a) = 0}
       IN  /\ a # 1
           /\ miller_rabin_of[a]
           /\ q' = [i \in 1..Len(rest) |->
                       IF i \in hit THEN CDiv(rest[i], a) ELSE rest[i]]
           /\ vf' = Append(vf, <<a, 1 + Cardinality(hit)>>)
           /\ loc' = [a |-> a, branch |-> "prime"]
    /\ UNCHANGED <<pc, args, ret>>

\* `if (miller_rabin<I>(a))`: a prime factor found
FactorPopPrime ==
    /\ pc = "loop" /\ q # <<>>
    /\ LET a == back(q)
           se == strip_all(pop_back(q), a, 1, 1)
       IN  /\ a # 1
           /\ miller_rabin_of[a]
           /\ q' = se[1]
           /\ vf' = Append(vf, <<a, se[2]>>)
           /\ loc' = [a |-> a, branch |-> "prime"]
    /\ UNCHANGED <<pc, args, ret>>

\* a slip: the composite that could not be split is dropped, not recorded
FactorPopFail_drop ==
    /\ pc = "loop" /\ q # <<>>
    /\ LET a == back(q)
           d == pollard_rho_repeated_of[a, args.max_iter]
       IN  /\ a # 1
           /\ ~miller_rabin_of[a]
           /\ d = 1 \/ d = a
           /\ q' = pop_back(q)
           /\ loc' = [a |-> a, branch |-> "fail"]
    /\ UNCHANGED <<pc, args, vf, ret>>

\* a slip: the composite that could not be split stays on the work-list
FactorPopFail_retry ==
    /\ pc = "loop" /\ q # <<>>
    /\ LET a == back(q)
           d == pollard_rho_repeated_of[a, args.max_iter]
       IN  /\ a # 1
           /\ ~miller_rabin_of[a]
           /\ d = 1 \/ d = a
           /\ q' = pop_back(q) \o <<a>>
           /\ loc' = [a |-> a, branch |-> "fail"]
    /\ UNCHANGED <<pc, args, vf, ret>>

\* `if (d == 1 || d == a)`: failed to factor the composite
FactorPopFail ==
    /\ pc = "loop" /\ q # <<>>
    /\ LET a == back(q)
           d == pollard_rho_repeated_of[a, args.max_iter]
       IN  /\ a # 1
           /\ ~miller_rabin_of[a]
           /\ d = 1 \/ d = a
           /\ q' = pop_back(q)
           /\ vf' = Append(vf, <<a, 1>>)
           /\ loc' = [a |-> a, branch |-> "fail"]
    /\ UNCHANGED <<pc, args, ret>>

\* a non-trivial factorization `a = d * e`
FactorPopSplit ==
    /\ pc = "loop" /\ q # <<>>
    /\ LET a == back(q)
           d == pollard_rho_repeated_of[a, args.max_iter]
       IN  /\ a # 1
           /\ ~miller_rabin_of[a]
           /\ ~(d = 1 \/ d = a)
           /\ q' = pop_back(q) \o <<d, CDiv(a, d)>>
           /\ loc' = [a |-> a, branch |-> "split"]
    /\ UNCHANGED <<pc, args, vf, ret>>

\* `while (!q.empty())` ends: `return vf;`
FactorReturn ==
    /\ pc = "loop" /\ q = <<>>
    /\ pc' = "done"
    /\ ret' = vf
    /\ UNCHANGED <<args, q, vf, loc>>

NextFactor ==
    \/ FactorTrivial
    \/ FactorEnter
    \/ FactorPopOne
    \/ FactorPopPrime
    \/ FactorPopFail
    \/ FactorPopSplit
    \/ FactorReturn

SpecFactor == InitFactor /\ [][NextFactor]_vars

\* sequential code: the call takes its next step as long as it has one (every
\* step changes pc or the work-list)
FairSpecFactor == SpecFactor /\ WF_<<pc, q>>(NextFactor)

\* product of prime^exponent over a factorization, product of a work-list
RECURSIVE FactorProduct(_)
FactorProduct(f) ==
    IF f = <<>> THEN 1
    ELSE powT_int(f[1][1], f[1][2]) * FactorProduct(Tail(f))

RECURSIVE SeqProduct(_)
SeqProduct(s) == IF s = <<>> THEN 1 ELSE s[1] * SeqProduct(Tail(s))

SeqSet(s) == {s[i] : i \in 1..Len(s)}

\* C2: for every n in 2..MaxFactorN and every max_iter (the budgets below 2
\* make Pollard's Rho fail, so composites are recorded), at every iteration
\* of the work-list loop the product of p^e over the recorded pairs times the
\* product of the pending values is n, and the returned factorization
\* multiplies back to n.
C2_RoundTrip ==
    args.n >= 2 =>
        /\ (pc = "loop" => FactorProduct(vf) * SeqProduct(q) = args.n)
        /\ (pc = "done" => FactorProduct(ret) = args.n)

C2_Witness ==
    /\ pc = "done" /\ args.n = 360 /\ args.max_iter = 1
    /\ ret = <<<<360, 1>>>>

\* C3: for every n in 2..MaxFactorN, with the default budgets, the pairs
\* returned by factor_integer(n) are, as a set, those of factor_integer_slow(n):
\* every first component is prime, no prime occurs twice, every exponent is
\* at least 1; factor_integer(360) is {(2,3),(3,2),(5,1)}.
C3_DefaultBudgetFactorization ==
    (pc = "done" /\ args.n >= 2 /\ args.max_iter = DefaultMaxIter) =>
        /\ SeqSet(ret) = SeqSet(factor_integer_slow(args.n))
        /\ \A i \in 1..Len(ret) : IsPrime(ret[i][1]) /\ ret[i][2] >= 1
        /\ \A i, j \in 1..Len(ret) : ret[i][1] = ret[j][1] => i = j
        /\ (args.n = 360 => SeqSet(ret) = {<<2, 3>>, <<3, 2>>, <<5, 1>>})

C3_Witness ==
    /\ pc = "done" /\ args.n = 360 /\ args.max_iter = DefaultMaxIter
    /\ SeqSet(ret) = {<<2, 3>>, <<3, 2>>, <<5, 1>>}

(***************************************************************************)
(* chinese_remainder (modulos.h): <<a, n>>.                                *)
(***************************************************************************)
\* a slip: the combined modulus is n1 * n2, not divided by the gcd
chinese_remainder_product(a1, n1, a2, n2) ==
    LET ge == gcd_ex(n1, n2)
        g == ge[1]
        ni1 == ge[2]
        ni2 == ge[3]
    IN  IF CMod(a2 - a1, g) # 0 THEN <<0, 0>>
        ELSE LET t1 == modulo_multiply(a1, ni2, n1)
                 t2 == modulo_multiply(a2, ni1, n2)
                 n == n1 * n2
                 a == modulo_multiply(t1, n2, n) + modulo_multiply(t2, n1, n)
             IN  <<modulo_normalize(a, n), n>>

\* a slip: the consistency test is left out
chinese_remainder_unchecked(a1, n1, a2, n2) ==
    LET ge == gcd_ex(n1, n2)
        g == ge[1]
        ni1 == ge[2]
        ni2 == ge[3]
        t1 == modulo_multiply(a1, ni2, n1)
        t2 == modulo_multiply(a2, ni1, n2)
        m1 == CDiv(n1, g)
        m2 == CDiv(n2, g)
        n == m1 * m2 * g
        a == modulo_multiply(t1, m2, n) + modulo_multiply(t2, m1, n)
    IN  <<modulo_normalize(a, n), n>>

chinese_remainder(a1, n1, a2, n2) ==
    LET ge == gcd_ex(n1, n2)
        g == ge[1]
        ni1 == ge[2]
        ni2 == ge[3]
    IN  IF CMod(a2 - a1, g) # 0 THEN <<0, 0>>
        ELSE LET t1 == modulo_multiply(a1, ni2, n1)
                 t2 == modulo_multiply(a2, ni1, n2)
                 m1 == CDiv(n1, g)
                 m2 == CDiv(n2, g)
                 n == m1 * m2 * g
                 a == modulo_multiply(t1, m2, n) + modulo_multiply(t2, m1, n)
             IN  <<modulo_normalize(a, n), n>>

InitCRT ==
    /\ pc = "chinese_remainder"
    /\ args \in [a1 : (-MaxCrtRes)..MaxCrtRes, n1 : 1..MaxCrtMod,
                 a2 : (-MaxCrtRes)..MaxCrtRes, n2 : 1..MaxCrtMod]
    /\ q = <<>> /\ vf = <<>> /\ loc = <<>>
    /\ ret = NoRet

ChineseRemainderCall ==
    /\ pc = "chinese_remainder"
    /\ ret' = chinese_remainder(args.a1, args.n1, args.a2, args.n2)
    /\ pc' = "done"
    /\ UNCHANGED <<args, q, vf, loc>>

NextCRT == ChineseRemainderCall

SpecCRT == InitCRT /\ [][NextCRT]_vars

\* the greatest common divisor and least common multiple, by definition
GCD(a, b) ==
    CHOOSE d \in 1..a : /\ Divides(d, a) /\ Divides(d, b)
                        /\ \A c \in 1..a : Divides(c, a) /\ Divides(c, b) => c <= d

LCM(a, b) ==
    CHOOSE m \in 1..(a * b) : /\ Divides(a, m) /\ Divides(b, m)
                              /\ \A c \in 1..(a * b) :
                                    Divides(a, c) /\ Divides(b, c) => m <= c

Consistent(a1, n1, a2, n2) == Divides(GCD(n1, n2), a2 - a1)

\* C4: for all moduli n1, n2 >= 1 (coprime or not) and all a1, a2 with
\* gcd(n1, n2) dividing a2 - a1, chinese_remainder gives n = lcm(n1, n2) and a
\* with a = a1 (mod n1), a = a2 (mod n2), 0 <= a < n; chinese_remainder(2, 3,
\* 3, 5) gives (8, 15).
C4_ChineseRemainderSolves ==
    (pc = "done" /\ Consistent(args.a1, args.n1, args.a2, args.n2)) =>
        /\ ret[2] = LCM(args.n1, args.n2)
        /\ ret[1] % args.n1 = args.a1 % args.n1
        /\ ret[1] % args.n2 = args.a2 % args.n2
        /\ 0 <= ret[1] /\ ret[1] < ret[2]
        /\ (args = [a1 |-> 2, n1 |-> 3, a2 |-> 3, n2 |-> 5] => ret = <<8, 15>>)

\* a solvable system with moduli that are not coprime and a negative residue
C4_Witness ==
    /\ pc = "done"
    /\ args = [a1 |-> -1, n1 |-> 4, a2 |-> 5, n2 |-> 6]
    /\ ret = <<11, 12>>

\* C5: for all moduli n1, n2 >= 1 and all a1, a2, chinese_remainder returns
\* the sentinel (0, 0) exactly when a2 - a1 is not divisible by gcd(n1, n2);
\* for a consistent system the returned n is >= 1.
C5_SentinelIffInconsistent ==
    pc = "done" =>
        /\ (ret = <<0, 0>>) = ~Consistent(args.a1, args.n1, args.a2, args.n2)
        /\ (Consistent(args.a1, args.n1, args.a2, args.n2) => ret[2] >= 1)

C5_Witness ==
    /\ pc = "done"
    /\ args = [a1 |-> 0, n1 |-> 2, a2 |-> 1, n2 |-> 4]
    /\ ret = <<0, 0>>

(***************************************************************************)
(* sqrt_cipolla (modulos.h).  The search loop                              *)
(*   do { a += 1, d = a * a - y; } while (powT(d, (y.M - 1) / 2) == 1);    *)
(* advances one iteration per action.  y is the moduloX value (y, p).      *)
(***************************************************************************)
\* the loop body: <<a, d>> after `a += 1, d = a * a - y`
cipolla_body(a, y) ==
    LET a2 == modx_add(a, 1)
    IN  <<a2, modx_sub(modx_mul(a2, a2.v), y.v)>>

\* the loop condition
cipolla_again(d, y) == powT_modx(d, CDiv(y.M - 1, 2)).v = 1

\* `return powT(quadraticX<M>(a, e1, d), (y.M + 1) / 2).a;`
cipolla_result(a, d, y) ==
    powT_quad(quadraticX(a, modx(1, y.M), d), CDiv(y.M + 1, 2)).a

\* the whole routine as a function (defined where the search ends)
RECURSIVE cipolla_search(_, _)
cipolla_search(a, y) ==
    LET ad == cipolla_body(a, y)
    IN  IF cipolla_again(ad[2], y) THEN cipolla_search(ad[1], y) ELSE ad

sqrt_cipolla(y) ==
    LET ad == cipolla_search(modx(0, y.M), y)
    IN  cipolla_result(ad[1], ad[2], y)

Primes(n) == {p \in 2..n : IsPrime(p)}

IsResidue(y, p) == \E x \in 0..(p - 1) : (x * x) % p = y % p

InitCipolla ==
    /\ pc = "sqrt_cipolla"
    /\ args \in {t \in [y : 0..(MaxCipollaP - 1), p : Primes(MaxCipollaP)] :
                    t.y < t.p /\ IsResidue(t.y, t.p)}
    /\ q = <<>> /\ vf = <<>> /\ loc = <<>>
    /\ ret = NoRet

\* `M a = e0, d = e0;`
CipollaEnter ==
    /\ pc = "sqrt_cipolla"
    /\ loc' = [a |-> modx(0, args.p), d |-> modx(0, args.p)]
    /\ pc' = "search"
    /\ UNCHANGED <<args, q, vf, ret>>

\* one iteration whose condition holds: the loop goes on
CipollaSearchAgain ==
    /\ pc = "search"
    /\ LET ad == cipolla_body(loc.a, modx(args.y, args.p))
       IN  /\ cipolla_again(ad[2], modx(args.y, args.p))
           /\ loc' = [a |-> ad[1], d |-> ad[2]]
    /\ UNCHANGED <<pc, args, q, vf, ret>>

\* one iteration whose condition fails: d is accepted
CipollaSearchFound ==
    /\ pc = "search"
    /\ LET ad == cipolla_body(loc.a, modx(args.y, args.p))
       IN  /\ ~cipolla_again(ad[2], modx(args.y, args.p))
           /\ loc' = [a |-> ad[1], d |-> ad[2]]
    /\ pc' = "found"
    /\ UNCHANGED <<args, q, vf, ret>>

CipollaReturn ==
    /\ pc = "found"
    /\ ret' = cipolla_result(loc.a, loc.d, modx(args.y, args.p)).v
    /\ pc' = "done"
    /\ UNCHANGED <<args, q, vf, loc>>

NextCipolla ==
    \/ CipollaEnter
    \/ CipollaSearchAgain
    \/ CipollaSearchFound
    \/ CipollaReturn

SpecCipolla == InitCipolla /\ [][NextCipolla]_vars

\* sequential code: a call that can take a step takes it
FairSpecCipolla == SpecCipolla /\ WF_vars(NextCipolla)

IsRootOf(r, y, m) == r \in 0..(m - 1) /\ (r * r) % m = y % m

\* C6: for every prime p (p = 2 included) and every quadratic residue y in
\* [0, p) (y = 0 included), sqrt_cipolla(y, p) terminates and returns r in
\* [0, p) with r * r mod p = y.
C6_CipollaTerminatesWithRoot ==
    <>(pc = "done" /\ IsRootOf(ret, args.y, args.p))

(***************************************************************************)
(* sqrt_hensel_lift (modulos.h).                                           *)
(***************************************************************************)
\* a slip: the last step lifts the modulus by one power of p, not to p^k
RECURSIVE hensel_loop_short(_, _, _, _, _)
hensel_loop_short(r, y, p, k, i) ==
    IF i < k
    THEN LET phi == CDiv(r.M, p) * (p - 1)
             u == powT_modx(modx_mul(r, 2), phi - 1)
             r1 == [v |-> r.v,
                    M |-> IF i * 2 < k THEN r.M * r.M ELSE r.M * p]
             v == modx_sub(modx_mul(r1, r1.v), y)
         IN  hensel_loop_short(modx_sub(r1, modx_mul(v, u.v).v), y, p, k, i * 2)
    ELSE r

\* `for (I i = 1; i < k; i *= 2)`
RECURSIVE hensel_loop(_, _, _, _, _)
hensel_loop(r, y, p, k, i) ==
    IF i < k
    THEN LET phi == CDiv(r.M, p) * (p - 1)
             u == powT_modx(modx_mul(r, 2), phi - 1)
             r1 == [v |-> r.v,
                    M |-> IF i * 2 < k THEN r.M * r.M ELSE powT_int(p, k)]
             v == modx_sub(modx_mul(r1, r1.v), y)
         IN  hensel_loop(modx_sub(r1, modx_mul(v, u.v).v), y, p, k, i * 2)
    ELSE r

sqrt_hensel_lift(y, p, k) == hensel_loop(sqrt_cipolla(modx(y, p)), y, p, k, 1).v

\* the calls of the model: odd prime p, k >= 1 with p^k within the bound,
\* y in [0, p^k) coprime to p and a quadratic residue mod p
HenselArgs ==
    {t \in [y : 0..MaxHenselMod, p : Primes(MaxHenselP) \ {2}, k : 1..MaxHenselK] :
        /\ powT_int(t.p, t.k) <= MaxHenselMod
        /\ t.y < powT_int(t.p, t.k)
        /\ t.y % t.p # 0
        /\ IsResidue(t.y, t.p)}

InitHensel ==
    /\ pc = "sqrt_hensel_lift"
    /\ args \in HenselArgs
    /\ q = <<>> /\ vf = <<>> /\ loc = <<>>
    /\ ret = NoRet

HenselLiftCall ==
    /\ pc = "sqrt_hensel_lift"
    /\ ret' = sqrt_hensel_lift(args.y, args.p, args.k)
    /\ pc' = "done"
    /\ UNCHANGED <<args, q, vf, loc>>

NextHensel == HenselLiftCall

SpecHensel == InitHensel /\ [][NextHensel]_vars

\* C7: for every odd prime p, every k >= 1 (powers of two or not) and every
\* y coprime to p that is a quadratic residue mod p, sqrt_hensel_lift(y, p, k)
\* returns r with 0 <= r < p^k and r * r mod p^k = y mod p^k.
C7_HenselLiftReturnsRoot ==
    pc = "done" => IsRootOf(ret, args.y, powT_int(args.p, args.k))

\* k = 5 is no power of two: the modulus goes 3, 9, 81 and is capped at 243
C7_Witness ==
    /\ pc = "done" /\ args.p = 3 /\ args.k = 5 /\ args.y = 7
    /\ (ret * ret) % 243 = 7

(***************************************************************************)
(* prime_factors (primes.h) and primitive_root (modulos.h).                *)
(***************************************************************************)
\* the first element of each pair of a factorization
prime_factors(f) == [i \in 1..Len(f) |-> f[i][1]]

\* `for (const I& p : phi_factors) primitive &= (powT(modx(g, m), phi / p) != 1);`
RECURSIVE is_primitive(_, _, _, _, _)
is_primitive(g, m, phi, phi_factors, i) ==
    IF i <= Len(phi_factors)
    THEN /\ powT_modx(modx(g, m), CDiv(phi, phi_factors[i])).v # 1
         /\ is_primitive(g, m, phi, phi_factors, i + 1)
    ELSE TRUE

\* one iteration of `for (I g = 1; g < m; g += 1)`: whether g is returned
root_found(g, m, phi, phi_factors) ==
    ~(gcd(g, m) > 1) /\ is_primitive(g, m, phi, phi_factors, 1)

\* the scan from g0 upward: the first g < m that is returned, 0 when the loop
\* runs out
root_scan(g0, m, phi, phi_factors) ==
    LET found == {g \in g0..(m - 1) : root_found(g, m, phi, phi_factors)}
    IN  IF found = {} THEN 0
        ELSE CHOOSE g \in found : \A h \in found : g <= h

\* a slip: the scan runs while g <= m
primitive_root_upto_m(m, phi, phi_factors) ==
    LET found == {g \in 1..m : root_found(g, m, phi, phi_factors)}
    IN  IF found = {} THEN 0
        ELSE CHOOSE g \in found : \A h \in found : g <= h

\* a slip: the scan starts at g = 2
primitive_root_from2(m, phi, phi_factors) == root_scan(2, m, phi, phi_factors)

primitive_root(m, phi, phi_factors) == root_scan(1, m, phi, phi_factors)

\* Euler's phi by definition; the moduli that have a primitive root
EulerPhi(m) == Cardinality({a \in 1..m : gcd(a, m) = 1})

IsOddPrimePower(n) ==
    n % 2 = 1 /\ Cardinality({p \in Primes(n) : Divides(p, n)}) = 1

HasRootForm(m) ==
    \/ m = 2 \/ m = 4
    \/ IsOddPrimePower(m)
    \/ (m % 2 = 0 /\ IsOddPrimePower(m \div 2))

RECURSIVE PowMod(_, _, _)
PowMod(g, e, m) ==
    IF e = 0 THEN 1 % m
    ELSE LET h == PowMod((g * g) % m, e \div 2, m)
         IN  IF e % 2 = 1 THEN (g * h) % m ELSE h

\* g is coprime to m and has multiplicative order exactly phi(m)
HasFullOrder(g, m) ==
    /\ gcd(g, m) = 1
    /\ PowMod(g, EulerPhi(m), m) = 1
    /\ \A e \in 1..(EulerPhi(m) - 1) : Divides(e, EulerPhi(m)) => PowMod(g, e, m) # 1

InitRoot ==
    /\ pc = "primitive_root"
    /\ args \in [m : 1..MaxRootM]
    /\ q = <<>> /\ vf = <<>> /\ loc = <<>>
    /\ ret = NoRet

\* called as primitive_root(m, phi(m), distinct prime factors of phi(m))
PrimitiveRootCall ==
    /\ pc = "primitive_root"
    /\ ret' = primitive_root(args.m, EulerPhi(args.m),
                             prime_factors(factor_integer_slow(EulerPhi(args.m))))
    /\ pc' = "done"
    /\ UNCHANGED <<args, q, vf, loc>>

NextRoot == PrimitiveRootCall

SpecRoot == InitRoot /\ [][NextRoot]_vars

\* C8: for every m <= MaxRootM of the form 2, 4, p^k or 2p^k (p an odd prime),
\* primitive_root(m, phi(m), prime factors of phi(m)) returns the smallest g
\* in [1, m) that is coprime to m and has order exactly phi(m): g^e mod m # 1
\* for every divisor e of phi(m) with 1 <= e < phi(m).
C8_PrimitiveRootIsSmallestGenerator ==
    (pc = "done" /\ HasRootForm(args.m)) =>
        /\ ret \in 1..(args.m - 1)
        /\ HasFullOrder(ret, args.m)
        /\ \A h \in 1..(ret - 1) : ~HasFullOrder(h, args.m)

\* 2 * 5^2: the smallest generator is 3 (2 is not coprime, 1 has order 1)
C8_Witness == pc = "done" /\ args.m = 50 /\ ret = 3

(***************************************************************************)
(* carmichael_lambda (primes.h) and the two kth_roots (modulos.h).         *)
(***************************************************************************)
\* a slip: the powers of two above 4 are treated like the other prime powers
RECURSIVE lambda_loop_no_two(_, _, _)
lambda_loop_no_two(f, i, r) ==
    IF i <= Len(f)
    THEN lambda_loop_no_two(f, i + 1,
                            lcm(r, powT_int(f[i][1], f[i][2] - 1) * (f[i][1] - 1)))
    ELSE r

RECURSIVE lambda_loop(_, _, _)
lambda_loop(f, i, r) ==
    IF i <= Len(f)
    THEN LET e == IF f[i][1] = 2 /\ f[i][2] > 2 THEN f[i][2] - 1 ELSE f[i][2]
         IN  lambda_loop(f, i + 1,
                         lcm(r, powT_int(f[i][1], e - 1) * (f[i][1] - 1)))
    ELSE r

carmichael_lambda(f) == lambda_loop(f, 1, 1)

\* `for (j = 0; j < d; j++) { sr.insert(r.v); r *= w; }`
RECURSIVE root_set(_, _, _, _, _)
root_set(sr, r, w, j, d) ==
    IF j < d THEN root_set(sr \cup {r.v}, modx_mul(r, w.v), w, j + 1, d) ELSE sr

\* a slip: w = g^d instead of g^(lam / d)
kth_roots_of_unity_wrong_w(m, k, lam, g) ==
    LET d == gcd(k, lam)
        w == powT_modx(modx(g, m), d)
    IN  root_set({}, modx(1, m), w, 0, d)

\* kth_roots(I m, I k, I lam, I g): the k-th roots of unity modulo m
kth_roots_of_unity(m, k, lam, g) ==
    LET d == gcd(k, lam)
        w == powT_modx(modx(g, m), CDiv(lam, d))
    IN  root_set({}, modx(1, m), w, 0, d)

\* a slip: the test `l % d != 0` is left out
kth_roots_unchecked(m, k, phi, g, l) ==
    LET d == gcd(k, phi)
    IN  IF d = 0 THEN {}
        ELSE LET phi2 == CDiv(phi, d)
                 h == modx_div(modx(CDiv(l, d), phi2), CDiv(k, d))
                 r == powT_modx(modx(g, m), h.v)
                 w == powT_modx(modx(g, m), phi2)
             IN  root_set({}, r, w, 0, d)

\* kth_roots(I m, I k, I phi, I g, I l): the k-th roots of n = g^l modulo m
kth_roots(m, k, phi, g, l) ==
    LET d == gcd(k, phi)
    IN  IF d = 0 \/ CMod(l, d) # 0 THEN {}
        ELSE LET phi2 == CDiv(phi, d)
                 h == modx_div(modx(CDiv(l, d), phi2), CDiv(k, d))
                 r == powT_modx(modx(g, m), h.v)
                 w == powT_modx(modx(g, m), phi2)
             IN  root_set({}, r, w, 0, d)

\* the primitive root the callers pass for m
RootOf(m) ==
    primitive_root(m, EulerPhi(m), prime_factors(factor_integer_slow(EulerPhi(m))))

InitKth ==
    /\ pc \in {"kth_roots_of_unity", "kth_roots"}
    /\ args \in {t \in [m : 2..MaxKthM, k : 1..MaxKthK, l : 0..MaxKthL] :
                    /\ HasRootForm(t.m)
                    /\ (pc = "kth_roots_of_unity" => t.l = 0)}
    /\ q = <<>> /\ vf = <<>> /\ loc = <<>>
    /\ ret = NoRet

\* called as kth_roots(m, k, carmichael_lambda(m), g)
KthRootsOfUnityCall ==
    /\ pc = "kth_roots_of_unity"
    /\ ret' = kth_roots_of_unity(args.m, args.k,
                                 carmichael_lambda(factor_integer_slow(args.m)),
                                 RootOf(args.m))
    /\ pc' = "done_unity"
    /\ UNCHANGED <<args, q, vf, loc>>

\* called as kth_roots(m, k, phi(m), g, l)
KthRootsCall ==
    /\ pc = "kth_roots"
    /\ ret' = kth_roots(args.m, args.k, EulerPhi(args.m), RootOf(args.m), args.l)
    /\ pc' = "done_roots"
    /\ UNCHANGED <<args, q, vf, loc>>

NextKth == KthRootsOfUnityCall \/ KthRootsCall

SpecKth == InitKth /\ [][NextKth]_vars

\* all x in [0, m) with x^k = n (mod m)
Solutions(m, k, n) == {x \in 0..(m - 1) : PowMod(x, k, m) = n % m}

\* C9: with n = g^l mod m and d = gcd(k, phi), kth_roots(m, k, phi, g, l) is
\* empty exactly when l mod d # 0, and otherwise is exactly the set of the d
\* residues x in [0, m) with x^k mod m = n.
C9_KthRootsAreAllSolutions ==
    pc = "done_roots" =>
        LET d == GCD(args.k, EulerPhi(args.m))
            n == PowMod(RootOf(args.m), args.l, args.m)
        IN  /\ (ret = {}) = (args.l % d # 0)
            /\ (args.l % d = 0 =>
                   /\ ret = Solutions(args.m, args.k, n)
                   /\ Cardinality(ret) = d)

\* m = 13, g = 2, k = 4, l = 8: the four fourth roots of 2^8 = 9 (mod 13)
C9_Witness ==
    /\ pc = "done_roots" /\ args = [m |-> 13, k |-> 4, l |-> 8]
    /\ ret = {4, 6, 7, 9}

\* C10: with lam = carmichael_lambda(m), kth_roots(m, k, lam, g) has exactly
\* d = gcd(k, lam) elements and is exactly the set of all x in [0, m) with
\* x^k mod m = 1.
C10_RootsOfUnityAreAllSolutions ==
    pc = "done_unity" =>
        /\ Cardinality(ret) =
               GCD(args.k, carmichael_lambda(factor_integer_slow(args.m)))
        /\ ret = Solutions(args.m, args.k, 1)

\* m = 2 * 3^2, k = 6: all six units are sixth roots of unity
C10_Witness ==
    /\ pc = "done_unity" /\ args.m = 18 /\ args.k = 6
    /\ ret = {1, 5, 7, 11, 13, 17}

(***************************************************************************)
(* garner (modulos.h): mixed-radix coefficients of a list of congruences.  *)
(* vap and the result are sequences of moduloX values, indexed from 1.     *)
(***************************************************************************)
\* a slip: the inner loop subtracts the given residue vap[j], not the
\* coefficient vx[j]
RECURSIVE garner_inner_vap(_, _, _, _, _)
garner_inner_vap(y, vx, vap, j, i) ==
    IF j < i
    THEN garner_inner_vap(modx_div(modx_sub(y, vap[j].v), vap[j].M), vx, vap, j + 1, i)
    ELSE y

\* `for (int j = 0; j < i; j++) { y -= vx[j]; y /= vap[j].M; }`
RECURSIVE garner_inner(_, _, _, _, _)
garner_inner(y, vx, vap, j, i) ==
    IF j < i
    THEN garner_inner(modx_div(modx_sub(y, vx[j].v), vap[j].M), vx, vap, j + 1, i)
    ELSE y

\* `for (int i = 0; i < vx.size(); i++) { auto y = vap[i]; ...; vx[i] = y; }`
RECURSIVE garner_outer(_, _, _)
garner_outer(vx, vap, i) ==
    IF i <= Len(vap)
    THEN garner_outer(Append(vx, garner_inner(vap[i], vx, vap, 1, i)), vap, i + 1)
    ELSE vx

garner(vap) == garner_outer(<<>>, vap, 1)

\* the moduloX values and the lists of congruences of the model
GarnerValues ==
    {x \in [v : 0..(MaxGarnerMod - 1), M : 2..MaxGarnerMod] : x.v < x.M}

GarnerLists ==
    UNION {[1..len -> GarnerValues] : len \in 0..MaxGarnerLen}

InitGarner ==
    /\ pc = "garner"
    /\ args \in [vap : GarnerLists]
    /\ q = <<>> /\ vf = <<>> /\ loc = <<>>
    /\ ret = NoRet

GarnerCall ==
    /\ pc = "garner"
    /\ ret' = garner(args.vap)
    /\ pc' = "done"
    /\ UNCHANGED <<args, q, vf, loc>>

NextGarner == GarnerCall

SpecGarner == InitGarner /\ [][NextGarner]_vars

PairwiseCoprime(vap) ==
    \A i, j \in 1..Len(vap) : i # j => GCD(vap[i].M, vap[j].M) = 1

\* q[i] = p[1] * ... * p[i-1], and u = Sum x[i] * q[i]
RECURSIVE RadixWeight(_, _)
RadixWeight(vap, i) == IF i <= 1 THEN 1 ELSE vap[i - 1].M * RadixWeight(vap, i - 1)

RECURSIVE MixedRadix(_, _, _)
MixedRadix(vx, vap, i) ==
    IF i > Len(vx) THEN 0
    ELSE vx[i].v * RadixWeight(vap, i) + MixedRadix(vx, vap, i + 1)

\* C11: for every list of up to MaxGarnerLen congruences with pairwise coprime
\* moduli in 2..MaxGarnerMod, garner returns as many coefficients x_i, with
\* the moduli of the input and 0 <= x_i < p_i, and the mixed-radix value
\* u = Sum x_i * (p_1 * ... * p_{i-1}) has u mod p_i = a_i for every i and
\* 0 <= u < p_1 * ... * p_n.
C11_GarnerMixedRadix ==
    (pc = "done" /\ PairwiseCoprime(args.vap)) =>
        LET u == MixedRadix(ret, args.vap, 1)
        IN  /\ Len(ret) = Len(args.vap)
            /\ \A i \in 1..Len(ret) :
                   /\ ret[i].M = args.vap[i].M
                   /\ 0 <= ret[i].v /\ ret[i].v < ret[i].M
                   /\ u % args.vap[i].M = args.vap[i].v
            /\ 0 <= u /\ u < RadixWeight(args.vap, Len(args.vap) + 1)

\* u = 2 (mod 3), 3 (mod 5), 1 (mod 4): x = (2, 2, 3), u = 2 + 2*3 + 3*15 = 53
C11_Witness ==
    /\ pc = "done"
    /\ args.vap = <<[v |-> 2, M |-> 3], [v |-> 3, M |-> 5], [v |-> 1, M |-> 4]>>
    /\ ret = <<[v |-> 2, M |-> 3], [v |-> 2, M |-> 5], [v |-> 3, M |-> 4]>>
    /\ MixedRadix(ret, args.vap, 1) = 53

(***************************************************************************)
(* pollard_rho and pollard_rho_repeated (primes.h), one loop iteration per *)
(* action.  loc is the frame of the running pollard_rho call: parameters   *)
(* n, k, a, the remaining budget left (max_inner_iter), the locals x, y,   *)
(* d, the number of loop bodies executed so far (steps), the value the     *)
(* call returns (res), and its caller with the caller's loop variable      *)
(* rep_k and the calls the caller has completed so far.                    *)
(***************************************************************************)
RhoSeeds == (-1)..MaxRhoSeed

RhoBudgets == ((-1)..MaxRhoBudget) \cup {DefaultMaxInnerIter}

RhoFrame(n, k, a, max_inner_iter, caller, rep_k, calls) ==
    [n |-> n, k |-> k, a |-> a, left |-> max_inner_iter,
     x |-> 0, y |-> 0, d |-> 1, steps |-> 0, res |-> 0,
     caller |-> caller, rep_k |-> rep_k, calls |-> calls]

\* what the caller sees of a completed call
RhoCallRecord(f, max_inner_iter) ==
    [n |-> f.n, k |-> f.k, a |-> f.a, max_inner_iter |-> max_inner_iter,
     steps |-> f.steps, d |-> f.res]

InitRho ==
    /\ pc \in {"pollard_rho", "pollard_rho_repeated"}
    /\ \/ /\ pc = "pollard_rho"
          /\ args \in [n : 0..MaxRhoN, k : RhoSeeds, a : RhoSeeds,
                       max_inner_iter : RhoBudgets]
          /\ loc = RhoFrame(args.n, args.k, args.a, args.max_inner_iter,
                            "main", 0, <<>>)
       \/ /\ pc = "pollard_rho_repeated"
          /\ args \in [n : 0..MaxRhoN, max_iter : SmallIters \cup {DefaultMaxIter},
                       max_inner_iter : RhoBudgets]
          /\ loc = <<>>
    /\ q = <<>> /\ vf = <<>>
    /\ ret = NoRet

\* `if (n == 0) return 0; if (n == 1) return 1; if (n % 2 == 0) return 2;`
RhoTrivial ==
    /\ pc = "pollard_rho"
    /\ loc.n = 0 \/ loc.n = 1 \/ CMod(loc.n, 2) = 0
    /\ loc' = [loc EXCEPT !.res = IF loc.n = 0 THEN 0
                                  ELSE IF loc.n = 1 THEN 1 ELSE 2]
    /\ pc' = "rho_done"
    /\ UNCHANGED <<args, q, vf, ret>>

\* `modx x = modx(k, n), y = modx(k, n); I d = 1;`
RhoEnter ==
    /\ pc = "pollard_rho"
    /\ ~(loc.n = 0 \/ loc.n = 1 \/ CMod(loc.n, 2) = 0)
    /\ loc' = [loc EXCEPT !.x = modx(loc.k, loc.n), !.y = modx(loc.k, loc.n),
                          !.d = 1]
    /\ pc' = "rho_loop"
    /\ UNCHANGED <<args, q, vf, ret>>

\* one body of `while (d == 1 && max_inner_iter-- > 0)`
RhoStep ==
    /\ pc = "rho_loop"
    /\ loc.d = 1 /\ loc.left > 0
    /\ LET x2 == rho_g(loc.x, loc.a)
           y2 == rho_g(rho_g(loc.y, loc.a), loc.a)
       IN  loc' = [loc EXCEPT !.x = x2, !.y = y2,
                              !.d = gcd(absT(modx_sub(x2, y2.v).v), loc.n),
                              !.left = loc.left - 1,
                              !.steps = loc.steps + 1]
    /\ UNCHANGED <<pc, args, q, vf, ret>>

\* a slip: `return d;`
RhoExit_returns_d ==
    /\ pc = "rho_loop"
    /\ ~(loc.d = 1 /\ loc.left > 0)
    /\ loc' = [loc EXCEPT !.res = loc.d,
                          !.left = IF loc.d = 1 THEN loc.left - 1 ELSE loc.left]
    /\ pc' = "rho_done"
    /\ UNCHANGED <<args, q, vf, ret>>

\* the loop ends (the failing test still decrements max_inner_iter when
\* d == 1): `return (d == 1) ? n : d;`
RhoExit ==
    /\ pc = "rho_loop"
    /\ ~(loc.d = 1 /\ loc.left > 0)
    /\ loc' = [loc EXCEPT !.res = IF loc.d = 1 THEN loc.n ELSE loc.d,
                          !.left = IF loc.d = 1 THEN loc.left - 1 ELSE loc.left]
    /\ pc' = "rho_done"
    /\ UNCHANGED <<args, q, vf, ret>>

\* the call made from outside returns
RhoReturn ==
    /\ pc = "rho_done" /\ loc.caller = "main"
    /\ ret' = loc.res
    /\ pc' = "done"
    /\ UNCHANGED <<args, q, vf, loc>>

\* `for (I k = 2; ...`
RhoRepeatedEnter ==
    /\ pc = "pollard_rho_repeated"
    /\ loc' = RhoFrame(args.n, 0, 0, args.max_inner_iter,
                       "pollard_rho_repeated", 2, <<>>)
    /\ pc' = "repeat_loop"
    /\ UNCHANGED <<args, q, vf, ret>>

\* a slip: the call leaves a at pollard_rho's default 1
RhoRepeatedCall_default_a ==
    /\ pc = "repeat_loop"
    /\ loc.rep_k <= args.max_iter
    /\ loc' = RhoFrame(args.n, loc.rep_k, 1, args.max_inner_iter,
                       "pollard_rho_repeated", loc.rep_k, loc.calls)
    /\ pc' = "pollard_rho"
    /\ UNCHANGED <<args, q, vf, ret>>

\* `k <= max_iter`: `pollard_rho(n, k, k, max_inner_iter)` is called
RhoRepeatedCall ==
    /\ pc = "repeat_loop"
    /\ loc.rep_k <= args.max_iter
    /\ loc' = RhoFrame(args.n, loc.rep_k, loc.rep_k, args.max_inner_iter,
                       "pollard_rho_repeated", loc.rep_k, loc.calls)
    /\ pc' = "pollard_rho"
    /\ UNCHANGED <<args, q, vf, ret>>

\* `I d = pollard_rho(...); if (d != n) return d;`
RhoRepeatedFound ==
    /\ pc = "rho_done" /\ loc.caller = "pollard_rho_repeated"
    /\ loc.res # args.n
    /\ loc' = [loc EXCEPT !.calls =
                   Append(loc.calls, RhoCallRecord(loc, args.max_inner_iter))]
    /\ ret' = loc.res
    /\ pc' = "done"
    /\ UNCHANGED <<args, q, vf>>

\* the call returned n: `k++`
RhoRepeatedNext ==
    /\ pc = "rho_done" /\ loc.caller = "pollard_rho_repeated"
    /\ loc.res = args.n
    /\ loc' = [loc EXCEPT !.calls =
                   Append(loc.calls, RhoCallRecord(loc, args.max_inner_iter)),
                          !.rep_k = loc.rep_k + 1]
    /\ pc' = "repeat_loop"
    /\ UNCHANGED <<args, q, vf, ret>>

\* `k <= max_iter` fails: `return n;`
RhoRepeatedReturn ==
    /\ pc = "repeat_loop"
    /\ ~(loc.rep_k <= args.max_iter)
    /\ ret' = args.n
    /\ pc' = "done"
    /\ UNCHANGED <<args, q, vf, loc>>

NextRho ==
    \/ RhoTrivial
    \/ RhoEnter
    \/ RhoStep
    \/ RhoExit
    \/ RhoReturn
    \/ RhoRepeatedEnter
    \/ RhoRepeatedCall
    \/ RhoRepeatedFound
    \/ RhoRepeatedNext
    \/ RhoRepeatedReturn

SpecRho == InitRho /\ [][NextRho]_vars

\* C12: every completed call pollard_rho(n, k, a, max_inner_iter) with n in
\* 0..MaxRhoN, whatever k, a and max_inner_iter (zero and negative included),
\* returns 0 for n = 0, 1 for n = 1, 2 for even n >= 2, and for odd n >= 3 a
\* divisor d of n that is n itself or has 1 < d < n; it never returns 1 for
\* n > 1 and returns n for every odd prime n.
C12_PollardRhoResult ==
    pc = "rho_done" =>
        LET n == loc.n
            d == loc.res
        IN  /\ (n = 0 => d = 0)
            /\ (n = 1 => d = 1)
            /\ (n >= 2 /\ n % 2 = 0 => d = 2)
            /\ (n >= 3 /\ n % 2 = 1 =>
                   /\ d >= 1 /\ Divides(d, n)
                   /\ d = n \/ (1 < d /\ d < n))
            /\ (n > 1 => d # 1)
            /\ (n % 2 = 1 /\ IsPrime(n) => d = n)

\* on the prime 97 the walk runs past the small budgets until x = y (mod n),
\* the gcd is n, and n is returned
C12_Witness ==
    /\ pc = "done" /\ loc.caller = "main" /\ args.n = 97
    /\ args.max_inner_iter = DefaultMaxInnerIter
    /\ ret = 97 /\ loc.d = 97 /\ loc.steps > MaxRhoBudget

Max(a, b) == IF a >= b THEN a ELSE b

\* C16: pollard_rho_repeated(n, max_iter, max_inner_iter) calls
\* pollard_rho(n, k, k, max_inner_iter) for k = 2, 3, ... in increasing order
\* (the i-th call has k = a = i + 1), every call but the last returned n, a
\* call that returns something else is the last one and its result is
\* returned, n is returned exactly when every call returned n and then all of
\* k = 2..max_iter were tried (none when max_iter < 2); there are at most
\* max(0, max_iter - 1) calls of at most max(0, max_inner_iter) loop steps.
C16_RepeatedCallsInOrder ==
    (pc \in {"repeat_loop", "done"} /\ loc # <<>>
        /\ loc.caller = "pollard_rho_repeated") =>
        LET calls == loc.calls
            len == Len(calls)
        IN  /\ \A i \in 1..len :
                   /\ calls[i].n = args.n
                   /\ calls[i].k = i + 1 /\ calls[i].a = i + 1
                   /\ calls[i].max_inner_iter = args.max_inner_iter
                   /\ calls[i].steps <= Max(0, args.max_inner_iter)
                   /\ (i < len => calls[i].d = args.n)
            /\ len <= Max(0, args.max_iter - 1)
            /\ (pc = "repeat_loop" =>
                   /\ len = loc.rep_k - 2
                   /\ \A i \in 1..len : calls[i].d = args.n)
            /\ (pc = "done" =>
                   /\ (ret # args.n => len >= 1 /\ calls[len].d = ret)
                   /\ (ret = args.n) = (\A i \in 1..len : calls[i].d = args.n)
                   /\ (ret = args.n => len = Max(0, args.max_iter - 1))
                   /\ (args.max_iter < 2 => len = 0 /\ ret = args.n))

\* n = 25 with one inner step: k = 2 and k = 3 fail, k = 4 finds 5
C16_Witness ==
    /\ pc = "done" /\ loc # <<>> /\ loc.caller = "pollard_rho_repeated"
    /\ args.n = 25 /\ args.max_iter = DefaultMaxIter
    /\ Len(loc.calls) >= 2 /\ ret # args.n

(***************************************************************************)
(* A call of carmichael_lambda on the factorization of m.                  *)
(***************************************************************************)
InitLambda ==
    /\ pc = "carmichael_lambda"
    /\ args \in [m : 1..MaxLambdaM]
    /\ q = <<>> /\ vf = <<>> /\ loc = <<>>
    /\ ret = NoRet

\* called as carmichael_lambda(factor_integer_slow(m))
CarmichaelLambdaCall ==
    /\ pc = "carmichael_lambda"
    /\ vf' = factor_integer_slow(args.m)
    /\ ret' = carmichael_lambda(factor_integer_slow(args.m))
    /\ pc' = "done"
    /\ UNCHANGED <<args, q, loc>>

NextLambda == CarmichaelLambdaCall

SpecLambda == InitLambda /\ [][NextLambda]_vars

\* a^L = 1 (mod m) for every a in [1, m] coprime to m (modulo 1 the residue
\* of 1 is 0)
IsUniversalExponent(L, m) ==
    \A a \in 1..m : gcd(a, m) = 1 => PowMod(a, L, m) = 1 % m

\* C15: for every m in 1..MaxLambdaM, with vf = factor_integer_slow(m) (the
\* prime factorization: distinct primes, product m), carmichael_lambda(vf) is
\* the smallest L >= 1 with a^L = 1 (mod m) for every a in [1, m] coprime to
\* m; m divisible by 2, by 4 and by 8 or a higher power of two included.
C15_CarmichaelLambdaIsLeastExponent ==
    pc = "done" =>
        /\ \A i \in 1..Len(vf) : IsPrime(vf[i][1]) /\ vf[i][2] >= 1
        /\ \A i, j \in 1..Len(vf) : vf[i][1] = vf[j][1] => i = j
        /\ FactorProduct(vf) = args.m
        /\ ret >= 1
        /\ IsUniversalExponent(ret, args.m)
        /\ \A L \in 1..(ret - 1) : ~IsUniversalExponent(L, args.m)

\* m = 120 = 2^3 * 3 * 5: lambda = lcm(2, 2, 4) = 4, while phi(120) = 32
C15_Witness ==
    /\ pc = "done" /\ args.m = 120
    /\ vf = <<<<2, 3>>, <<3, 1>>, <<5, 1>>>>
    /\ ret = 4

(***************************************************************************)
(* The work-list loop of factor_integer: termination and its branches.     *)
(***************************************************************************)
\* C17: factor_integer(n, max_iter) terminates for every n in 0..MaxFactorN
\* and every max_iter: the work-list becomes empty and the call returns.  Every
\* iteration pops a and lowers Rank, the sum of 2v - 1 over the pending values
\* v >= 1: a split pushes two values strictly between 1 and a, the prime
\* branch only shrinks the pending values, and a composite whose split fails
\* is recorded as (a, 1) and not pushed back.
RECURSIVE Rank(_)
Rank(s) == IF s = <<>> THEN 0 ELSE (2 * s[1] - 1) + Rank(Tail(s))

C17_FactorTerminates ==
    /\ <>(pc = "done" /\ q = <<>>)
    /\ [][(pc = "loop" /\ q # <<>>) =>
            LET a == back(q)
                rest == pop_back(q)
            IN  /\ pc' = "loop" /\ loc'.a = a
                /\ Rank(q') < Rank(q) /\ \A i \in 1..Len(q') : q'[i] >= 1
                /\ (loc'.branch = "split" =>
                       /\ Len(q') = Len(rest) + 2
                       /\ SubSeq(q', 1, Len(rest)) = rest
                       /\ \A i \in (Len(rest) + 1)..Len(q') : 1 < q'[i] /\ q'[i] < a)
                /\ (loc'.branch = "prime" =>
                       /\ Len(q') = Len(rest)
                       /\ \A i \in 1..Len(rest) : q'[i] <= rest[i])
                /\ (loc'.branch \in {"fail", "one"} => q' = rest)
                /\ (loc'.branch = "fail" => vf' = Append(vf, <<a, 1>>))]_vars

\* 900 = 2^2 * 3^2 * 5^2 is split twice before its three primes are recorded
C17_Witness ==
    /\ pc = "done" /\ q = <<>> /\ args.n = 900 /\ args.max_iter = DefaultMaxIter
    /\ Len(ret) = 3 /\ FactorProduct(ret) = 900

\* C18: in every iteration that pops a composite a for which
\* pollard_rho_repeated(a, max_iter) returns a or 1, exactly the pair (a, 1)
\* is appended to the output, nothing is pushed and the pending values stay
\* as they are; for every composite n and max_iter < 2 the result is [(n, 1)].
C18_FailedSplitIsRecorded ==
    /\ []((pc = "done" /\ args.n >= 2 /\ ~IsPrime(args.n) /\ args.max_iter < 2)
            => ret = <<<<args.n, 1>>>>)
    /\ [][(/\ pc = "loop" /\ q # <<>>
           /\ back(q) >= 2 /\ ~IsPrime(back(q))
           /\ pollard_rho_repeated(back(q), args.max_iter, DefaultMaxInnerIter)
                  \in {1, back(q)})
          => /\ vf' = Append(vf, <<back(q), 1>>)
             /\ q' = pop_back(q)
             /\ pc' = "loop" /\ ret' = ret]_vars

\* 18 with max_iter = 2: 18 splits into 2 and 9, the one try on 9 fails, (9, 1)
\* is recorded while 2 stays pending
C18_Witness ==
    /\ pc = "loop" /\ args = [n |-> 18, max_iter |-> 2]
    /\ loc = [a |-> 9, branch |-> "fail"]
    /\ vf = <<<<9, 1>>>> /\ q = <<2>>

\* the number of times a divides v
RECURSIVE Multiplicity(_, _)
Multiplicity(a, v) == IF v % a = 0 THEN 1 + Multiplicity(a, v \div a) ELSE 0

\* C19: the values recorded through the prime branch are those of vf that
\* miller_rabin accepts.  In every state, for each of them, no pending value
\* and no pair recorded after it is divisible by it, so they are pairwise
\* distinct; and the prime branch records a with its full multiplicity in the
\* product of a and the values that were pending.
C19_RecordedPrimeIsStrippedOut ==
    /\ [](\A i \in 1..Len(vf) :
             miller_rabin(vf[i][1]) =>
                 /\ \A j \in 1..Len(q) : q[j] % vf[i][1] # 0
                 /\ \A j \in (i + 1)..Len(vf) : vf[j][1] % vf[i][1] # 0
                 /\ \A j \in 1..Len(vf) :
                        (miller_rabin(vf[j][1]) /\ vf[j][1] = vf[i][1]) => j = i)
    /\ [][(pc = "loop" /\ q # <<>> /\ back(q) # 1 /\ miller_rabin(back(q)))
          => vf' = Append(vf, <<back(q), Multiplicity(back(q), SeqProduct(q))>>)]_vars

\* 72 = 2^3 * 3^2 with the default budget: 3 is recorded first with exponent
\* 2, and 2 with exponent 3 after it
C19_Witness ==
    /\ pc = "done" /\ args = [n |-> 72, max_iter |-> DefaultMaxIter]
    /\ SeqSet(ret) = {<<2, 3>>, <<3, 2>>}

(***************************************************************************)
(* primitive_root on the moduli that have no primitive root.               *)
(***************************************************************************)
\* no g in [1, m] is coprime to m with order exactly phi(m)
NoGenerator(m) ==
    LET phi == EulerPhi(m)
    IN  \A g \in 1..m :
            ~(/\ gcd(g, m) = 1
              /\ PowMod(g, phi, m) = 1
              /\ \A e \in 1..(phi - 1) : Divides(e, phi) => PowMod(g, e, m) # 1)

\* C20: for every m in 1..MaxRootM, primitive_root(m, phi(m), distinct prime
\* factors of phi(m)) returns 0 when m is not of the form 2, 4, p^k or 2p^k
\* (m = 1, 8, 12, 15, 16, ...) and a value in [1, m) when it is: the result is
\* 0 exactly when m has no primitive root.
C20_ZeroIffNoPrimitiveRoot ==
    pc = "done" =>
        /\ (~HasRootForm(args.m) => ret = 0)
        /\ (HasRootForm(args.m) => ret \in 1..(args.m - 1))
        /\ (ret # 0 => HasFullOrder(ret, args.m))
        /\ (ret = 0 => NoGenerator(args.m))

\* modulo 8 every unit squares to 1: no g passes and the loop runs out
C20_Witness == pc = "done" /\ args.m = 8 /\ ret = 0

====
